---- MODULE Spec2Model ----
(***************************************************************************)
(* Model of src/main.py: the GDAX candle importer.                         *)
(*                                                                         *)
(* Datetimes are naive and are modelled as whole seconds since the Unix    *)
(* epoch (a timedelta is a number of seconds).  TEXT values of the SQLite  *)
(* table are sequences of decimal digits, produced by str and compared     *)
(* the way SQLite compares TEXT (byte by byte).  The candles table is a    *)
(* bag of rows.  One process run is StartRun .. Finish (or a crash); the   *)
(* table outlives the run.                                                 *)
(***************************************************************************)
EXTENDS Integers, Sequences, FiniteSets, Bags, TLC

VARIABLES
    store,        \* the candles table: a bag of rows
    tableCreated, \* create_table has run on this database file
    pc,           \* position of the driver process
    runs,         \* number of process runs started so far
    now,          \* datetime.now() bound as get_candles' default end_date
    argStart,     \* args.start_date, parsed (NoDate when not given)
    argProduct,   \* args.product (NoProduct when not given)
    products,     \* products_to_update, in iteration order
    idx,          \* enumerate(products_to_update, 1): the current index i
    start_date,   \* main's start_date for the current product
    end_date,     \* get_candles' end_date after the margin is subtracted
    curr,         \* daterange's cursor: the window requested is (curr, curr + step)
    step,         \* daterange's step
    windows,      \* the windows daterange has yielded for the current product
    tries_i,      \* get's loop variable i for the call in progress
    attempts,     \* requests.get calls made by the call of get() in progress
    last_status,  \* status of the latest HTTP response (0: none yet)
    sleeps,       \* time.sleep(1) calls made by the call in progress
    outcome,      \* how the last finished get() call ended
    candles,      \* the batch get_candles yielded to main
    warned,       \* 'Response length invalid' warnings of the last insert_db
    inserted      \* rows the last insert_db added

vars == << store, tableCreated, pc, runs, now, argStart, argProduct, products,
           idx, start_date, end_date, curr, step, windows, tries_i, attempts,
           last_status, sleeps, outcome, candles, warned, inserted >>

----------------------------------------------------------------------------
(* Bounds of the model *)

\* process runs explored
MaxRuns == 2
\* windows one product may need in one run
MaxWindows == 2
\* candles the upstream holds per window
RecordsPerWindow == 2

----------------------------------------------------------------------------
(* Program constants *)

\* timedelta(minutes=300), in seconds
Margin == 300 * 60

\* granularity=60: one candle per minute
Granularity == 60

\* tries = 3
tries == 3

\* the statuses get() retries
RetryStatuses == {429, 500}

\* the registry, restricted to two instruments; each date is the naive
\* datetime strptime(PRODUCTS[product], '%Y-%m-%d') in epoch seconds
ProductOrder == << "ETH-BTC", "ETH-USD" >>
PRODUCTS == [p \in {"ETH-BTC", "ETH-USD"} |-> 16939 * 86400]

NoDate == -1
NoProduct == ""
\* None, as fetchone()[0] gives it when max() ran over no row
NULL == << >>

----------------------------------------------------------------------------
(* Conversions *)

\* str(i) of a non-negative integer: its decimal digits
RECURSIVE str(_)
str(n) == IF n < 10 THEN << n >> ELSE Append(str(n \div 10), n % 10)

\* int(s) of a digit string
RECURSIVE int(_)
int(s) == IF s = << >> THEN 0
          ELSE Head(s) * 10 ^ (Len(s) - 1) + int(Tail(s))

\* SQLite's order on TEXT values (BINARY collation: memcmp, a proper prefix
\* sorts first)
RECURSIVE TextLess(_, _)
TextLess(a, b) ==
    IF a = << >> THEN b # << >>
    ELSE IF b = << >> THEN FALSE
    ELSE IF a[1] # b[1] THEN a[1] < b[1]
    ELSE TextLess(Tail(a), Tail(b))

----------------------------------------------------------------------------
(* The candles table *)

\* variant: the values are bound to the columns in the order the table
\* declares them (market, time, open, high, low, close, volume)
Row_table_order(product, candle) ==
    [ market |-> product,
      time   |-> str(candle[1]),
      open   |-> str(candle[2]),
      high   |-> str(candle[3]),
      low    |-> str(candle[4]),
      close  |-> str(candle[5]),
      volume |-> str(candle[6]) ]

\* one row of candles(market, time, open, high, low, close, volume); the
\* INSERT names the columns market, time, low, high, open, close, volume and
\* binds them to the product followed by the six converted response values
Row(product, candle) ==
    [ market |-> product,
      time   |-> str(candle[1]),
      low    |-> str(candle[2]),
      high   |-> str(candle[3]),
      open   |-> str(candle[4]),
      close  |-> str(candle[5]),
      volume |-> str(candle[6]) ]

\* PRIMARY KEY (market, time): a stored row conflicts with the new one
Conflicts(st, row) ==
    \E r \in BagToSet(st) : r.market = row.market /\ r.time = row.time

\* variant: a plain INSERT into a table without the primary key
InsertPlain(st, row) == st (+) SetToBag({row})

\* variant: INSERT OR REPLACE
InsertOrReplace(st, row) ==
    SetToBag({r \in BagToSet(st) :
                  ~(r.market = row.market /\ r.time = row.time)} \cup {row})

\* variant: INSERT OR REPLACE into a table whose primary key is time alone
InsertOrReplace_time_key(st, row) ==
    SetToBag({r \in BagToSet(st) : r.time # row.time} \cup {row})

\* INSERT OR IGNORE of one row
InsertOrIgnore(st, row) ==
    IF Conflicts(st, row) THEN st ELSE st (+) SetToBag({row})

\* variant: only records that are too short are skipped
WellFormedOrLonger(cs) == SelectSeq(cs, LAMBDA c : Len(c) >= 6)

\* the records candle_generator lets through, in order
WellFormed(cs) == SelectSeq(cs, LAMBDA c : Len(c) = 6)

\* the warnings candle_generator logs: one per record it skips
Warnings(cs) == Cardinality({k \in 1..Len(cs) : Len(cs[k]) # 6})

\* candle_generator: the parameter rows of executemany
candle_generator(product, cs) ==
    [k \in 1..Len(WellFormed(cs)) |-> Row(product, WellFormed(cs)[k])]

\* cur.executemany: the statement is run for each parameter row in turn
RECURSIVE executemany(_, _)
executemany(st, rows) ==
    IF rows = << >> THEN st
    ELSE executemany(InsertOrIgnore(st, Head(rows)), Tail(rows))

\* insert_db(cur, product, candles): the table afterwards
insert_db(st, product, cs) == executemany(st, candle_generator(product, cs))

\* the rows of one market
RowsOf(st, product) == {r \in BagToSet(st) : r.market = product}

\* select max(time) from candles where market=?  -- time is a TEXT column,
\* so max() is taken in TEXT order; NULL when no row matches
MaxTime(st, product) ==
    LET ts == {r.time : r \in RowsOf(st, product)}
    IN  IF ts = {} THEN NULL
        ELSE CHOOSE t \in ts : \A u \in ts : u = t \/ TextLess(u, t)

\* variant: the resume point is one window after the latest stored time
get_start_date_skipping(st, product) ==
    IF MaxTime(st, product) = NULL
    THEN PRODUCTS[product]
    ELSE int(MaxTime(st, product)) + Margin

\* get_start_date(product, cur)
get_start_date(st, product) ==
    IF MaxTime(st, product) = NULL
    THEN PRODUCTS[product]
    ELSE int(MaxTime(st, product))

----------------------------------------------------------------------------
(* daterange and the windows of get_candles *)

\* variant: the loop test lets the cursor reach end
daterange_more_inclusive(c, end) == c <= end

\* daterange's loop test
daterange_more(c, end) == c < end

\* the pair daterange yields at cursor c
daterange_window(c, d) == << c, c + d >>

\* variant: the margin is added
safe_end_added(n) == n + Margin

\* get_candles' end_date after the margin is taken off
safe_end(n) == n - Margin

\* get_candles' early return
empty_range(sd, n) == safe_end(n) < sd

----------------------------------------------------------------------------
(* The environment: command lines, clocks and upstream responses *)

\* 2001-09-09, the day the epoch second count reaches ten digits (at
\* 01:46:40), as a --start-date
Day2001 == 11574 * 86400

\* --start-date values tried (parsed by strptime), and its absence
StartChoices == {NoDate, Day2001}

\* --product values tried, one of them missing from PRODUCTS
ProductChoices == {NoProduct, "ETH-BTC", "XRP-USD"}

\* the clock readings tried: one minute short of a first window after
\* 2001-09-09, and eleven hours after each of the start dates
NowChoices ==
    {Day2001 + Margin - 60, Day2001 + 2 * Margin + 3600,
     PRODUCTS["ETH-BTC"] + 2 * Margin + 3600}

\* HTTP statuses of the upstream
Statuses == {200, 400, 403, 429, 500}

\* a well-formed record [time, low, high, open, close, volume]
candle(t, v) == << t, 10*v + 1, 10*v + 4, 10*v + 2, 10*v + 3, 10*v + 5 >>

\* seconds between the candles the upstream holds
RecordGap == 100 * Granularity

\* the candles the upstream holds for the window starting at s, in version
\* v of their values, newest first
Full(s, v) ==
    [k \in 1..RecordsPerWindow |->
        candle(s + (RecordsPerWindow - k) * RecordGap, v)]

\* the candle one minute into the window, cut or padded to n fields
Misshapen(s, n) ==
    IF n < 6 THEN SubSeq(candle(s + Granularity, 1), 1, n)
    ELSE Append(candle(s + Granularity, 1), 0)

\* response b with a malformed record after its first record
Malformed(b, bad) == << b[1], bad >> \o Tail(b)

\* the response bodies the upstream may return for the window starting at s
Batches(s) ==
    {<< >>} \cup {Full(s, v) : v \in {1, 2}}
            \cup {Malformed(Full(s, 1), Misshapen(s, n)) : n \in {5, 7}}

\* main's choice of start date for a product
resolve_start(st, product, sa) ==
    IF sa # NoDate THEN sa ELSE get_start_date(st, product)

\* the run needs at most MaxWindows windows for the product
FitsBound(sd, n) == sd + MaxWindows * Margin >= safe_end(n)

----------------------------------------------------------------------------
(* The driver *)

Init ==
    /\ store = EmptyBag
    /\ tableCreated = FALSE
    /\ pc = "idle"
    /\ runs = 0
    /\ now = 0
    /\ argStart = NoDate
    /\ argProduct = NoProduct
    /\ products = << >>
    /\ idx = 0
    /\ start_date = 0
    /\ end_date = 0
    /\ curr = 0
    /\ step = Margin
    /\ windows = << >>
    /\ tries_i = 0
    /\ attempts = 0
    /\ last_status = 0
    /\ sleeps = 0
    /\ outcome = "none"
    /\ candles = << >>
    /\ warned = 0
    /\ inserted = 0

\* products_to_update (lines 190-193), for a product argument PRODUCTS has
products_to_update(pa) == IF pa # NoProduct THEN << pa >> ELSE ProductOrder

\* variant: the KeyError is caught and every product is updated instead
on_KeyError_caught ==
    /\ pc' = "product"
    /\ outcome' = "keyerror"
    /\ argStart' = NoDate
    /\ argProduct' = NoProduct
    /\ products' = ProductOrder
    /\ idx' = 1

\* PRODUCTS[args.product] raises KeyError: nothing catches it, the process
\* ends before the product loop
on_KeyError ==
    /\ pc' = "crashed"
    /\ outcome' = "keyerror"
    /\ argStart' = NoDate
    /\ argProduct' = NoProduct
    /\ products' = << >>
    /\ idx' = 0

\* main up to the product loop: parse the arguments, create the table,
\* select the products; an unknown --product raises KeyError
StartRun(n, sa, pa) ==
    /\ pc \in {"idle", "done", "crashed"}
    /\ runs < MaxRuns
    /\ n >= now
    /\ runs' = runs + 1
    /\ now' = n
    /\ tableCreated' = TRUE
    /\ IF pa # NoProduct /\ pa \notin DOMAIN PRODUCTS
       THEN on_KeyError
       ELSE /\ \A k \in 1..Len(products_to_update(pa)) :
                 FitsBound(resolve_start(store, products_to_update(pa)[k], sa), n)
            /\ pc' = "product"
            /\ outcome' = "none"
            /\ argStart' = sa
            /\ argProduct' = pa
            /\ products' = products_to_update(pa)
            /\ idx' = 1
    /\ UNCHANGED << store, step, start_date, end_date, curr, windows, candles,
                    warned, inserted, tries_i, attempts, last_status, sleeps >>

\* the frame of get() is new or gone
NoCall ==
    /\ tries_i' = 0
    /\ attempts' = 0
    /\ last_status' = 0
    /\ sleeps' = 0

\* the frame of get_candles and main's loop variables are new or gone
NoProductFrame ==
    /\ start_date' = 0
    /\ end_date' = 0
    /\ curr' = 0
    /\ windows' = << >>
    /\ candles' = << >>
    /\ warned' = 0
    /\ inserted' = 0

\* the generator is exhausted or has returned: main's for loop over the
\* batches ends and the product loop takes the next product
NextProduct ==
    /\ pc' = "product"
    /\ idx' = idx + 1
    /\ NoProductFrame

\* the process ends by an uncaught exception or a signal; what it held in
\* memory is gone, the database file stays
Exit(how, cause) ==
    /\ pc' = how
    /\ outcome' = cause
    /\ argStart' = NoDate
    /\ argProduct' = NoProduct
    /\ products' = << >>
    /\ idx' = 0
    /\ NoCall
    /\ NoProductFrame

\* one iteration of the product loop up to the first request: resolve the
\* start date, enter get_candles, take the first window if there is one
BeginProduct ==
    /\ pc = "product"
    /\ idx <= Len(products)
    /\ LET sd == resolve_start(store, products[idx], argStart)
       IN  IF empty_range(sd, now) \/ ~daterange_more(sd, safe_end(now))
           THEN NextProduct
           ELSE /\ start_date' = sd
                /\ end_date' = safe_end(now)
                /\ curr' = sd
                /\ windows' = << daterange_window(sd, step) >>
                /\ pc' = "get"
                /\ UNCHANGED << idx, candles, warned, inserted >>
    /\ NoCall
    /\ outcome' = "none"
    /\ UNCHANGED << store, tableCreated, runs, now, argStart, argProduct,
                    products, step >>

\* variant: the HTTPError is not caught and ends the process
on_http_error_uncaught ==
    /\ outcome' = "raised"
    /\ pc' = "crashed"
    /\ idx' = idx
    /\ NoProductFrame

\* get_candles' except clause: log the error and return, which ends the
\* product's batches
on_http_error ==
    /\ outcome' = "raised"
    /\ NextProduct

\* variant: the last try is retried too
retried_every_try(status, i) == status \in RetryStatuses /\ i < tries

\* variant: every error status is retried
retried_any_status(status, i) == i < tries - 1

\* get() retries this failure
retried(status, i) == status \in RetryStatuses /\ i < tries - 1

\* one HTTP attempt of get() and what follows from its status
Attempt(status, data) ==
    /\ pc = "get"
    /\ attempts' = attempts + 1
    /\ last_status' = status
    /\ IF status = 200
       THEN /\ outcome' = "returned"
            /\ candles' = data
            /\ pc' = "yielded"
            /\ UNCHANGED << tries_i, sleeps, idx, start_date, end_date, curr,
                            windows, warned, inserted >>
       ELSE IF retried(status, tries_i)
       THEN /\ sleeps' = sleeps + 1
            /\ tries_i' = tries_i + 1
            /\ UNCHANGED << outcome, candles, pc, idx, start_date, end_date,
                            curr, windows, warned, inserted >>
       ELSE /\ on_http_error
            /\ UNCHANGED << tries_i, sleeps >>
    /\ UNCHANGED << store, tableCreated, runs, now, argStart, argProduct,
                    products, step >>

\* variant: get_candles catches the failure as it catches an HTTPError and
\* gives the product up
AttemptNetworkFailure_caught ==
    /\ pc = "get"
    /\ outcome' = "neterror"
    /\ NextProduct
    /\ NoCall
    /\ UNCHANGED << store, tableCreated, runs, now, argStart, argProduct,
                    products, step >>

\* an attempt that ends in a timeout or a connection error: no HTTPError,
\* nothing catches it
AttemptNetworkFailure ==
    /\ pc = "get"
    /\ Exit("crashed", "neterror")
    /\ UNCHANGED << store, tableCreated, runs, now, step >>

\* variant: every statement is committed as it is run, nothing is rolled back
with_con_autocommit(before, after, raised) == after

\* what `with con:` leaves in the table: the work is committed, or rolled
\* back when the block raised
with_con(before, after, raised) == IF raised THEN before ELSE after

\* variant: the batch is put aside and nothing is inserted before the next
\* window is requested
InsertBatch_deferred ==
    /\ pc = "yielded"
    /\ store' = store
    /\ warned' = 0
    /\ inserted' = 0
    /\ pc' = "pace"
    /\ NoCall
    /\ UNCHANGED << tableCreated, runs, now, argStart, argProduct, products,
                    idx, start_date, end_date, curr, step, windows, outcome,
                    candles >>

\* with con: insert_db(cur, product, candles); the call of get() that
\* fetched the batch is over
InsertBatch ==
    /\ pc = "yielded"
    /\ store' = with_con(store, insert_db(store, products[idx], candles), FALSE)
    /\ warned' = Warnings(candles)
    /\ inserted' = BagCardinality(store') - BagCardinality(store)
    /\ pc' = "pace"
    /\ NoCall
    /\ UNCHANGED << tableCreated, runs, now, argStart, argProduct, products,
                    idx, start_date, end_date, curr, step, windows, outcome,
                    candles >>

\* the same, with the database failing after k of the records
InsertFailure(k) ==
    /\ pc = "yielded"
    /\ k \in 0..Len(candles)
    /\ store' = with_con(store,
                         insert_db(store, products[idx], SubSeq(candles, 1, k)),
                         TRUE)
    /\ Exit("crashed", "dberror")
    /\ UNCHANGED << tableCreated, runs, now, step >>

\* variant: daterange does not advance its cursor
Pace_same_window ==
    /\ pc = "pace"
    /\ IF daterange_more(curr + step, end_date)
       THEN /\ curr' = curr
            /\ windows' = windows
            /\ pc' = "get"
            /\ NoCall
            /\ candles' = << >>
            /\ warned' = 0
            /\ inserted' = 0
            /\ outcome' = "none"
            /\ UNCHANGED << idx, start_date, end_date >>
       ELSE /\ NextProduct
            /\ UNCHANGED << outcome, tries_i, attempts, last_status, sleeps >>
    /\ UNCHANGED << store, tableCreated, runs, now, argStart, argProduct,
                    products, step >>

\* time.sleep(0.5), then get_candles resumes: the next window, or the end
Pace ==
    /\ pc = "pace"
    /\ IF daterange_more(curr + step, end_date)
       THEN /\ curr' = curr + step
            /\ windows' = Append(windows, daterange_window(curr + step, step))
            /\ pc' = "get"
            /\ NoCall
            /\ candles' = << >>
            /\ warned' = 0
            /\ inserted' = 0
            /\ outcome' = "none"
            /\ UNCHANGED << idx, start_date, end_date >>
       ELSE /\ NextProduct
            /\ UNCHANGED << outcome, tries_i, attempts, last_status, sleeps >>
    /\ UNCHANGED << store, tableCreated, runs, now, argStart, argProduct,
                    products, step >>

\* the product loop is over: con.close() and exit
Finish ==
    /\ pc = "product"
    /\ idx > Len(products)
    /\ Exit("done", "none")
    /\ UNCHANGED << store, tableCreated, runs, now, step >>

\* the process is killed
Interrupt ==
    /\ pc \in {"product", "get", "yielded", "pace"}
    /\ Exit("crashed", "killed")
    /\ UNCHANGED << store, tableCreated, runs, now, step >>

Next ==
    \/ \E n \in NowChoices, sa \in StartChoices, pa \in ProductChoices :
           StartRun(n, sa, pa)
    \/ BeginProduct
    \/ \E status \in Statuses, data \in Batches(curr) : Attempt(status, data)
    \/ AttemptNetworkFailure
    \/ InsertBatch
    \/ \E k \in 0..(RecordsPerWindow + 1) : InsertFailure(k)
    \/ Pace
    \/ Finish
    \/ Interrupt

Spec == Init /\ [][Next]_vars

----------------------------------------------------------------------------
(* Runs in which every request is answered by an HTTP response, every sleep
   returns, the database works and nothing kills the process *)

\* the steps of the running process
Running ==
    \/ BeginProduct
    \/ \E status \in Statuses, data \in Batches(curr) : Attempt(status, data)
    \/ InsertBatch
    \/ Pace
    \/ Finish

NextAnswered ==
    \/ \E n \in NowChoices, sa \in StartChoices, pa \in ProductChoices :
           StartRun(n, sa, pa)
    \/ Running

\* the process is sequential code: as long as it has not ended, its next
\* statement is executed
SpecAnswered == Init /\ [][NextAnswered]_vars /\ WF_vars(Running)

----------------------------------------------------------------------------
(* daterange on its own, for arbitrary start, end and step *)

\* largest start and end tried
DrMaxTime == 5
\* largest step tried
DrMaxStep == 3

DrInit ==
    /\ store = EmptyBag
    /\ tableCreated = FALSE
    /\ pc = "daterange"
    /\ runs = 0
    /\ now = 0
    /\ argStart = NoDate
    /\ argProduct = NoProduct
    /\ products = << >>
    /\ idx = 0
    /\ start_date \in 0..DrMaxTime
    /\ end_date \in 0..DrMaxTime
    /\ step \in 1..DrMaxStep
    /\ curr = start_date
    /\ windows = << >>
    /\ tries_i = 0
    /\ attempts = 0
    /\ last_status = 0
    /\ sleeps = 0
    /\ outcome = "none"
    /\ candles = << >>
    /\ warned = 0
    /\ inserted = 0

\* one pass through the loop body: yield the window, then advance
DrYield ==
    /\ pc = "daterange"
    /\ daterange_more(curr, end_date)
    /\ windows' = Append(windows, daterange_window(curr, step))
    /\ curr' = curr + step
    /\ UNCHANGED << store, tableCreated, pc, runs, now, argStart, argProduct,
                    products, idx, start_date, end_date, step, tries_i,
                    attempts, last_status, sleeps, outcome, candles, warned,
                    inserted >>

\* the loop test fails: the generator is exhausted
DrReturn ==
    /\ pc = "daterange"
    /\ ~daterange_more(curr, end_date)
    /\ pc' = "exhausted"
    /\ UNCHANGED << store, tableCreated, runs, now, argStart, argProduct,
                    products, idx, start_date, end_date, curr, step, windows,
                    tries_i, attempts, last_status, sleeps, outcome, candles,
                    warned, inserted >>

DrNext == DrYield \/ DrReturn

SpecDaterange == DrInit /\ [][DrNext]_vars

----------------------------------------------------------------------------
(* Properties *)

\* this step is one HTTP attempt of get()
AttemptMade == pc = "get" /\ attempts' = attempts + 1

\* this step is an HTTP attempt that ends get() in a terminal HTTP failure
TerminalFailure ==
    /\ AttemptMade
    /\ \/ last_status' \notin {200, 429, 500}
       \/ last_status' \in {429, 500} /\ attempts' = 3

\* the number of rows stored under the key (m, t)
KeyCount(st, m, t) ==
    BagCardinality([r \in {x \in BagToSet(st) : x.market = m /\ x.time = t}
                       |-> st[r]])

\* the numerically greatest time stored for a product that has rows
Latest(st, product) ==
    CHOOSE t \in {int(r.time) : r \in RowsOf(st, product)} :
        \A r \in RowsOf(st, product) : int(r.time) <= t

\* C1: a call of get() makes at most 3 HTTP attempts; a 200 on any attempt,
\* the third included, makes the call return that response's body; a 429 or
\* 500 on the first or second attempt is followed by a sleep and another
\* attempt; a 429 or 500 on the third attempt makes the call raise, with no
\* fourth attempt.
C1_RetryCeiling ==
    [][AttemptMade =>
        /\ attempts' <= 3
        /\ last_status' = 200 =>
              /\ pc' = "yielded"
              /\ outcome' = "returned"
              /\ candles' \in Batches(curr)
        /\ last_status' \in {429, 500} /\ attempts' < 3 =>
              /\ pc' = "get"
              /\ sleeps' = sleeps + 1
        /\ last_status' \in {429, 500} /\ attempts' = 3 =>
              /\ pc' # "get"
              /\ outcome' = "raised"]_vars

\* C1 witness: a call has raised after three transient failures in a row
C1_Witness ==
    /\ outcome = "raised"
    /\ last_status \in {429, 500}
    /\ attempts = 3
    /\ sleeps = 2

\* C2: an attempt of get() that fails with a status other than 429 and 500
\* makes the call raise at once, on whichever attempt it happens: no sleep
\* follows it and the call makes no further attempt.
C2_NoRetryOnPermanentError ==
    [][/\ AttemptMade /\ last_status' \notin {200, 429, 500} =>
              /\ pc' # "get"
              /\ outcome' = "raised"
              /\ sleeps' = sleeps
       /\ outcome = "raised" => attempts' \in {attempts, 0}]_vars

\* C2 witness: a 403 on the second attempt, after one transient failure,
\* has ended the call
C2_Witness ==
    /\ outcome = "raised"
    /\ last_status = 403
    /\ attempts = 2
    /\ sleeps = 1

\* C3: every window get_candles requests ends at or before now - 300
\* minutes, and no record passed to insert_db has a time after now - 300
\* minutes.
C3_FreshnessMargin ==
    /\ \A k \in 1..Len(windows) : windows[k][2] <= now - 300 * 60
    /\ pc \in {"yielded", "pace"} =>
          \A k \in 1..Len(candles) : candles[k][1] <= now - 300 * 60

\* C4: for every product, get_start_date is the numerically greatest time
\* stored for it, and the registry start date when it has no row.
C4_ResumeCorrectness ==
    \A p \in DOMAIN PRODUCTS :
        get_start_date(store, p) =
            IF RowsOf(store, p) = {} THEN PRODUCTS[p] ELSE Latest(store, p)

\* C5: inserting the batch in hand a second time leaves the table as the
\* first insert leaves it, and no step adds a row under a key that is
\* already stored.
C5_IdempotentInsert ==
    /\ [](pc = "yielded" =>
            LET once == insert_db(store, products[idx], candles)
            IN  insert_db(once, products[idx], candles) = once)
    /\ [][\A r \in BagToSet(store) :
            KeyCount(store', r.market, r.time)
                = KeyCount(store, r.market, r.time)]_vars

\* C5 witness: a batch of well-formed records whose keys were all stored
\* already has been inserted and added nothing
C5_Witness ==
    /\ pc = "pace"
    /\ Len(candles) > 0
    /\ warned = 0
    /\ inserted = 0

\* C6: the table never holds two rows under one (market, time) key, and
\* every step keeps every stored row, with the values it was stored with.
C6_WriteOnce ==
    /\ [](\A r \in BagToSet(store) : KeyCount(store, r.market, r.time) = 1)
    /\ [][\A r \in BagToSet(store) :
            /\ r \in BagToSet(store')
            /\ CopiesIn(r, store') = CopiesIn(r, store)]_vars

\* C6 witness: a record with a stored key and other values has been through
\* insert_db
C6_Witness ==
    /\ pc = "pace"
    /\ \E k \in 1..Len(candles) :
          /\ Len(candles[k]) = 6
          /\ Conflicts(store, Row(products[idx], candles[k]))
          /\ Row(products[idx], candles[k]) \notin BagToSet(store)

\* C7: insert_db logs one warning per record that has not exactly 6 fields
\* and stores nothing for it, and adds the row of every 6-field record
\* whose key is not stored yet.
C7_MalformedSkip ==
    [][pc = "yielded" /\ pc' = "pace" =>
        LET good == {k \in 1..Len(candles) : Len(candles[k]) = 6}
            fresh == {Row(products[idx], candles[k]) : k \in
                         {j \in good :
                             ~Conflicts(store, Row(products[idx], candles[j]))}}
        IN  /\ warned' = Len(candles) - Cardinality(good)
            /\ BagToSet(store') = BagToSet(store) \cup fresh
            /\ inserted' = Cardinality(fresh)]_vars

\* C7 witness: a batch with one malformed record among new well-formed ones
\* has been inserted: one warning, every well-formed record stored
C7_Witness ==
    /\ pc = "pace"
    /\ Len(candles) = RecordsPerWindow + 1
    /\ warned = 1
    /\ inserted = RecordsPerWindow

\* C8: when the start date of the product in turn is after now - 300
\* minutes, the driver's next step goes to the next product with no window
\* requested, no HTTP attempt made and the table unchanged (or the process
\* is killed).
C8_EmptyRange ==
    [][/\ pc = "product"
       /\ idx <= Len(products)
       /\ resolve_start(store, products[idx], argStart) > now - 300 * 60
       => \/ /\ pc' = "product"
             /\ idx' = idx + 1
             /\ store' = store
             /\ windows' = << >>
             /\ attempts' = 0
             /\ outcome' = "none"
          \/ /\ pc' = "crashed"
             /\ outcome' = "killed"
             /\ store' = store]_vars

\* C8 witness: the first product was passed over because its start date is
\* after now - 300 minutes
C8_Witness ==
    /\ pc = "product"
    /\ idx = 2
    /\ outcome = "none"
    /\ resolve_start(store, products[1], argStart) > now - 300 * 60

\* C9: for start < end, the windows daterange has yielded start at start,
\* are each (cursor, cursor + step), each begin where the one before ends,
\* all begin before end; there are at most ceil((end - start) / step) of
\* them; and when the generator is exhausted they reach end, the last one
\* ending less than step after end.
C9_WindowCoverage ==
    start_date < end_date =>
        /\ Len(windows) * step < (end_date - start_date) + step
        /\ \A k \in 1..Len(windows) :
              /\ windows[k][1] = start_date + (k - 1) * step
              /\ windows[k][2] = windows[k][1] + step
              /\ windows[k][1] < end_date
              /\ k > 1 => windows[k][1] = windows[k - 1][2]
        /\ pc = "exhausted" =>
              /\ Len(windows) >= 1
              /\ windows[Len(windows)][2] >= end_date
              /\ windows[Len(windows)][2] - end_date < step

\* C9 witness: an exhausted generator that yielded several windows, the
\* last one ending after end
C9_Witness ==
    /\ pc = "exhausted"
    /\ start_date < end_date
    /\ Len(windows) >= 2
    /\ windows[Len(windows)][2] > end_date

\* C10: a terminal HTTP failure leaves the table and the selected products
\* as they are and puts the driver at the next product, with the failed
\* product's windows abandoned and the process alive; from there its next
\* step begins the next product or, when none is left, finishes (or the
\* process is killed); a run never goes back to an earlier product.
C10_TerminalFailure ==
    /\ [][/\ TerminalFailure =>
                /\ pc' = "product"
                /\ idx' = idx + 1
                /\ windows' = << >>
                /\ store' = store
                /\ products' = products
          /\ pc = "product" /\ outcome = "raised" =>
                \/ pc' = "crashed" /\ outcome' = "killed"
                \/ IF idx <= Len(products)
                   THEN \/ pc' = "get" /\ idx' = idx
                        \/ pc' = "product" /\ idx' = idx + 1
                   ELSE pc' = "done"
          /\ idx > 0 /\ idx' > 0 => idx' \in {idx, idx + 1}]_vars
    /\ [](outcome = "raised" =>
            /\ pc = "product"
            /\ idx \in 2..(Len(products) + 1))

\* C10 witness: the first of two products failed terminally and the driver
\* is at the second one
C10_Witness ==
    /\ pc = "product"
    /\ outcome = "raised"
    /\ idx = 2
    /\ Len(products) = 2

\* this step ends the product in turn before its windows are exhausted: a
\* terminal HTTP failure, or the end of the process
Aborted ==
    /\ pc \in {"get", "yielded", "pace"}
    /\ TerminalFailure \/ pc' = "crashed"

\* the start of the first window the product in turn has not committed
Uncommitted == IF pc = "pace" THEN curr + step ELSE curr

\* C11 as stated, for every aborted run: while a product is imported, the
\* start date a run without --start-date would resolve for it is at or before
\* the start of the first window not committed yet; a step that aborts the
\* product leaves the table as it is, so that window and the later ones are
\* within the next such run's range.
C11_AbortThenResume_AnyRun ==
    /\ [](pc \in {"get", "yielded", "pace"} =>
            get_start_date(store, products[idx]) <= Uncommitted)
    /\ [][Aborted =>
            /\ store' = store
            /\ get_start_date(store', products[idx]) <= Uncommitted]_vars

\* C11, for runs without --start-date: the first window of a product starts
\* at its resume point, each later window starts where the one before ends,
\* and the resume point is never after the start of the first window not
\* committed yet; a step that aborts the product (terminal HTTP failure,
\* interrupt, uncaught exception) removes and changes no stored row and
\* leaves the resume point at or before the start of the window it aborted,
\* so the next run without --start-date requests that window's range and
\* what follows it again and no range is skipped.
C11_AbortThenResume ==
    /\ [](argStart = NoDate /\ pc \in {"get", "yielded", "pace"} =>
            /\ get_start_date(store, products[idx]) <= Uncommitted
            /\ windows[1][1] <= PRODUCTS[products[idx]]
                  \/ RowsOf(store, products[idx]) # {}
            /\ windows[Len(windows)] = << curr, curr + step >>
            /\ \A k \in 2..Len(windows) : windows[k][1] = windows[k - 1][2])
    /\ [][/\ argStart' = NoDate /\ pc = "product" /\ pc' = "get" =>
                curr' = get_start_date(store, products[idx])
          /\ argStart = NoDate /\ Aborted =>
                /\ store' = store
                /\ get_start_date(store', products[idx]) <= Uncommitted]_vars

\* C11 witness: in a first run without --start-date, the first product was
\* abandoned on a terminal HTTP failure after batches of it were committed
C11_Witness ==
    /\ runs = 1
    /\ argStart = NoDate
    /\ pc = "product"
    /\ outcome = "raised"
    /\ idx = 2
    /\ RowsOf(store, products[1]) # {}

\* C12: when the driver takes up a product, the start date it resolves is
\* --start-date when one was given; otherwise, when the table has rows of the
\* product, the product's watermark, the latest time stored for it;
\* otherwise the product's date in PRODUCTS.
C12_StartDatePriority ==
    [][pc = "product" /\ pc' = "get" =>
        start_date' =
            IF argStart # NoDate THEN argStart
            ELSE IF RowsOf(store, products[idx]) # {}
                 THEN Latest(store, products[idx])
                 ELSE PRODUCTS[products[idx]]]_vars

\* the rows the batch in hand adds: those of its 6-field records whose key
\* is not stored yet
NewRows ==
    {Row(products[idx], candles[k]) : k \in
        {j \in 1..Len(candles) :
            /\ Len(candles[j]) = 6
            /\ ~Conflicts(store, Row(products[idx], candles[j]))}}

\* C13: the step that ends the insert of a batch, by a commit or by a
\* failure after any number of its records, leaves the table with all of
\* the batch's new rows or with none of them; when the insert failed the
\* table is as it was before the batch, and so are the product's resume
\* point and its latest stored time.
C13_AtomicBatch ==
    [][pc = "yielded" =>
        /\ BagToSet(store') = BagToSet(store) \cup NewRows
              \/ store' = store
        /\ pc' = "pace" => BagToSet(store') = BagToSet(store) \cup NewRows
        /\ pc' = "crashed" =>
              /\ store' = store
              /\ get_start_date(store', products[idx])
                    = get_start_date(store, products[idx])]_vars

\* C13 witness: a database failure has ended a run that had committed a
\* batch before
C13_Witness ==
    /\ pc = "crashed"
    /\ outcome = "dberror"
    /\ runs = 1
    /\ store # EmptyBag

\* C14: a run carries on past its start only with products PRODUCTS has: a
\* run given a --product missing from PRODUCTS ends in the step that starts
\* it, with a KeyError, whatever the table holds and whether or not
\* --start-date is given; that step makes no HTTP attempt and leaves the
\* table as it is, and nothing follows it but the start of another run.
C14_UnknownProductFailsFast ==
    /\ [](/\ argProduct \in {NoProduct} \cup DOMAIN PRODUCTS
          /\ \A k \in 1..Len(products) : products[k] \in DOMAIN PRODUCTS
          /\ \A r \in BagToSet(store) : r.market \in DOMAIN PRODUCTS
          /\ outcome = "keyerror" =>
                /\ pc = "crashed"
                /\ attempts = 0
                /\ windows = << >>)
    /\ [][/\ outcome' = "keyerror" /\ runs' # runs =>
                /\ pc \in {"idle", "done", "crashed"}
                /\ pc' = "crashed"
                /\ store' = store
                /\ attempts' = 0
          /\ outcome = "keyerror" => runs' # runs
          /\ AttemptMade => products[idx] \in DOMAIN PRODUCTS]_vars

\* C14 witness: a run over a table that holds rows has ended in the
\* KeyError
C14_Witness ==
    /\ pc = "crashed"
    /\ outcome = "keyerror"
    /\ store # EmptyBag

\* C15: the windows of a product start at strictly increasing times; HTTP
\* attempts are made only while no fetched batch is in hand, for the latest
\* window; a batch in hand is the response to the latest window, and the
\* only way on from it is the insert of that batch, which commits all its
\* new rows (or the end of the process); a later window is requested only
\* by the step that follows the commit, the pacing sleep after which
\* get_candles resumes.
C15_PersistPaceFetch ==
    /\ [](/\ \A k \in 2..Len(windows) : windows[k - 1][1] < windows[k][1]
          /\ pc = "get" => candles = << >>
          /\ pc \in {"yielded", "pace"} => candles \in Batches(curr))
    /\ [][/\ AttemptMade =>
                /\ candles = << >>
                /\ windows[Len(windows)] = << curr, curr + step >>
          /\ pc = "yielded" =>
                \/ pc' = "crashed"
                \/ /\ pc' = "pace"
                   /\ BagToSet(store') = BagToSet(store) \cup NewRows
                   /\ windows' = windows
                   /\ attempts' = 0
          /\ pc' = "pace" => pc = "yielded"
          /\ Len(windows) > 0 /\ Len(windows') > Len(windows) =>
                /\ pc = "pace"
                /\ pc' = "get"
                /\ Len(windows') = Len(windows) + 1
                /\ store' = store]_vars

\* C15 witness: the second window of a product is being requested, one
\* attempt for it made, with rows of the first window in the table
C15_Witness ==
    /\ pc = "get"
    /\ runs = 1
    /\ Len(windows) = 2
    /\ attempts = 1
    /\ RowsOf(store, products[idx]) # {}

\* C16: a timeout or connection error of an attempt, the first of a call or
\* one after retries, ends the process in that very step: no sleep, no
\* further attempt and no next product follow it, its outcome is not that
\* of a terminal HTTP failure, and the table stays as it is; until another
\* run is started nothing happens.
C16_NetworkFailure ==
    /\ [](outcome = "neterror" =>
            /\ pc = "crashed"
            /\ attempts = 0
            /\ sleeps = 0
            /\ products = << >>)
    /\ [][/\ pc = "get" /\ outcome' = "neterror" =>
                /\ pc' = "crashed"
                /\ store' = store
                /\ \A r \in BagToSet(store) :
                      CopiesIn(r, store') = CopiesIn(r, store)
          /\ outcome = "neterror" =>
                /\ ~AttemptMade
                /\ runs' # runs
                /\ store' = store]_vars

\* C16 witness: a network failure has ended a run that had committed rows,
\* and the rows are in the table
C16_Witness ==
    /\ pc = "crashed"
    /\ outcome = "neterror"
    /\ runs = 1
    /\ store # EmptyBag

\* C17: when a batch is committed for product m, every 6-field record
\* [time, low, high, open, close, volume] of it whose (m, time) key was not
\* stored has exactly one row under that key afterwards, and that row's
\* time, low, high, open, close and volume are the decimal text of the
\* record's field of the same name, which reads back as the field's value.
C17_FieldMapping ==
    [][pc = "yielded" /\ pc' = "pace" =>
        \A k \in 1..Len(candles) :
            LET c == candles[k]
                stored(st) == {r \in BagToSet(st) :
                                  /\ r.market = products[idx]
                                  /\ r.time = str(c[1])}
            IN  Len(c) = 6 /\ stored(store) = {} =>
                  /\ Cardinality(stored(store')) = 1
                  /\ \A r \in stored(store') :
                        /\ DOMAIN r = {"market", "time", "low", "high",
                                       "open", "close", "volume"}
                        /\ r.low = str(c[2]) /\ int(r.low) = c[2]
                        /\ r.high = str(c[3]) /\ int(r.high) = c[3]
                        /\ r.open = str(c[4]) /\ int(r.open) = c[4]
                        /\ r.close = str(c[5]) /\ int(r.close) = c[5]
                        /\ r.volume = str(c[6]) /\ int(r.volume) = c[6]
                        /\ int(r.time) = c[1]]_vars

\* C17 witness: a batch of well-formed records, all under new keys, has been
\* committed, and the row of its first record is in the table with the
\* record's low as its low and the record's open as its open
C17_Witness ==
    /\ pc = "pace"
    /\ warned = 0
    /\ inserted = RecordsPerWindow
    /\ \E r \in BagToSet(store) :
          /\ r.market = products[idx]
          /\ r.time = str(candles[1][1])
          /\ r.low = str(candles[1][2])
          /\ r.open = str(candles[1][4])

\* C18: no step of any run makes the watermark of a product that has rows
\* smaller: the product keeps having rows, its latest stored time does not
\* decrease, and the date a run without --start-date resumes it from does
\* not decrease.
C18_WatermarkMonotone ==
    [][\A p \in DOMAIN PRODUCTS :
        RowsOf(store, p) # {} =>
            /\ RowsOf(store', p) # {}
            /\ Latest(store', p) >= Latest(store, p)
            /\ get_start_date(store', p) >= get_start_date(store, p)]_vars

\* C19: every step leaves the rows, the resume point and the latest stored
\* time of every product other than the one in turn as they are, a commit
\* for the product in turn and its terminal HTTP failure included; and a
\* commit stores the row of a record of the product in turn under a new key
\* also when another product has a row with the same time.
C19_Isolation ==
    [][\A p \in DOMAIN PRODUCTS :
        /\ ~(idx \in 1..Len(products) /\ products[idx] = p) =>
              /\ RowsOf(store', p) = RowsOf(store, p)
              /\ \A r \in RowsOf(store, p) :
                    CopiesIn(r, store') = CopiesIn(r, store)
              /\ get_start_date(store', p) = get_start_date(store, p)
        /\ pc = "yielded" /\ pc' = "pace" /\ products[idx] = p =>
              \A k \in 1..Len(candles) :
                  Len(candles[k]) = 6 =>
                      KeyCount(store', p, str(candles[k][1])) = 1]_vars

\* C19 witness: rows of the second product have been committed under times
\* the first product has rows for too, and both products' rows are stored
C19_Witness ==
    /\ pc = "pace"
    /\ idx = 2
    /\ inserted = RecordsPerWindow
    /\ \A k \in 1..Len(candles) :
          /\ KeyCount(store, products[1], str(candles[k][1])) = 1
          /\ KeyCount(store, products[2], str(candles[k][1])) = 1

\* C20: a run whose requests are all answered by HTTP responses, whatever
\* their statuses, ends with the product loop finished.  On the way, a call
\* of get() makes at most 3 attempts, every window starts with no attempt
\* and no retry spent, the cursor moves forward by the positive step, and
\* the windows of a product are fewer than (end - start) / step + 1.
C20_Termination ==
    /\ [](/\ attempts <= 3
          /\ tries_i <= 2
          /\ step > 0
          /\ pc \in {"get", "yielded", "pace"} =>
                /\ curr < end_date
                /\ Len(windows) * step < (end_date - start_date) + step
          /\ pc \in {"product", "get", "yielded", "pace"} =>
                idx \in 1..(Len(products) + 1))
    /\ [][/\ pc' = "get" /\ pc # "get" =>
                /\ attempts' = 0
                /\ tries_i' = 0
          /\ pc = "pace" /\ pc' = "get" => curr' = curr + step /\ curr' > curr
          /\ pc = "pace" /\ pc' = "product" => idx' = idx + 1]_vars
    /\ (pc \in {"product", "get", "yielded", "pace"}) ~> (pc = "done")

\* C20 witness: a first run over both products has reached its end, with
\* rows of both committed on the way
C20_Witness ==
    /\ pc = "done"
    /\ runs = 1
    /\ RowsOf(store, "ETH-BTC") # {}
    /\ RowsOf(store, "ETH-USD") # {}

====
